---- MODULE Spec2Model ----
(***************************************************************************)
(* A model of src/tic_tac_toe.py: the TicTacToe class (board,              *)
(* current_player, make_move, check_winner, is_board_full, is_game_over,   *)
(* get_board, reset) and the console loop under __main__.                  *)
(*                                                                         *)
(* The specifications share the variables:                                 *)
(*   Spec      any caller of the class: every method, any integer          *)
(*             arguments, in any order;                                    *)
(*   SpecMain  the console loop of __main__, which asks for a move only    *)
(*             while is_game_over() is false;                              *)
(*   SpecCW    check_winner as a pure function of an arbitrary 3x3 grid;   *)
(*   SpecSnap  a caller that keeps and writes into a get_board() result;   *)
(*   SpecLive  the console loop with a player who keeps entering moves.    *)
(***************************************************************************)
EXTENDS Integers, FiniteSets, Sequences, TLC

\* The side of the board: range(3) and "< 3" in the source.
N == 3

\* How far outside 0..N-1 the row and column arguments of make_move range.
OutOfRange == 1

Idx == 0 .. (N - 1)

Coords == (0 - OutOfRange) .. (N - 1 + OutOfRange)

\* The three values a cell holds: ' ', 'X', 'O'.
Empty == " "

Marks == {"X", "O"}

Cells == {Empty} \cup Marks

\* Python's None, False and True as returned by the methods.
None == "None"

False == "False"

True == "True"

Bool(p) == IF p THEN True ELSE False

VARIABLES
    board,          \* self.board: row index -> column index -> cell
    current_player, \* self.current_player
    pc,             \* position of the console loop ("api" outside SpecMain)
    op,             \* name of the last method called
    args,           \* its arguments
    ret,            \* the value it returned
    old_board,      \* self.board when it was called
    old_player,     \* self.current_player when it was called
    placed,         \* marks written by successful moves since __init__/reset
    snapshot,       \* <<g>>: the grid g a caller holds from get_board(); <<>>: none
    shared,         \* rows of that grid that are the list objects of self.board
    writes,         \* cell writes the caller has made into that grid
    calls           \* steps taken in SpecSnap

vars ==
    <<board, current_player, pc, op, args, ret, old_board, old_player, placed,
      snapshot, shared, writes, calls>>

\* The caller's side of a snapshot; followed in SpecSnap only.
snapvars == <<snapshot, shared, writes, calls>>

game == <<board, current_player>>

\* [[' ' for _ in range(3)] for _ in range(3)]
EmptyBoard == [r \in Idx |-> [c \in Idx |-> Empty]]

AllBoards == [Idx -> [Idx -> Cells]]

\* A Python list index: a negative index counts from the end of the list.
PyIdx(i) == IF i < 0 THEN i + N ELSE i

\* self.board[row][col]
At(b, row, col) == b[PyIdx(row)][PyIdx(col)]

\* self.board[row][col] = mark
Place(b, row, col, mark) == [b EXCEPT ![PyIdx(row)][PyIdx(col)] = mark]

\* 0 <= row < 3 and 0 <= col < 3, with the lower bounds left out.
InRangeNoLower(row, col) == row < N /\ col < N

\* 0 <= row < 3 and 0 <= col < 3
InRange(row, col) == 0 <= row /\ row < N /\ 0 <= col /\ col < N

\* The occupied-cell test left out.
NeverOccupied(b, row, col) == FALSE

\* self.board[row][col] != ' '
Occupied(b, row, col) == At(b, row, col) # Empty

\* The player is not flipped.
SamePlayer(p) == p

\* The flip with a lower-case letter in its else branch.
OtherLower(p) == IF p = "X" THEN "O" ELSE "x"

\* 'O' if self.current_player == 'X' else 'X'
Other(p) == IF p = "X" THEN "O" ELSE "X"

\* row[0] == row[1] == row[2] != ' '   (a chained comparison)
Three(a, b, c) == a = b /\ b = c /\ c # Empty

\* The row loop left out.
NoRows(b, r) == None

\* The row loop over reversed(self.board): the last row is tested first.
RECURSIVE ScanRowsBackwards(_, _)
ScanRowsBackwards(b, r) ==
    IF r = N THEN None
    ELSE IF Three(b[N - 1 - r][0], b[N - 1 - r][1], b[N - 1 - r][2])
         THEN b[N - 1 - r][0]
    ELSE ScanRowsBackwards(b, r + 1)

\* for row in self.board: if row[0] == row[1] == row[2] != ' ': return row[0]
RECURSIVE ScanRows(_, _)
ScanRows(b, r) ==
    IF r = N THEN None
    ELSE IF Three(b[r][0], b[r][1], b[r][2]) THEN b[r][0]
    ELSE ScanRows(b, r + 1)

\* The column loop left out.
NoCols(b, c) == None

\* for col in range(3): if board[0][col] == board[1][col] == board[2][col] != ' '
RECURSIVE ScanCols(_, _)
ScanCols(b, c) ==
    IF c = N THEN None
    ELSE IF Three(b[0][c], b[1][c], b[2][c]) THEN b[0][c]
    ELSE ScanCols(b, c + 1)

\* The two diagonal tests, main diagonal first.
ScanDiags(b) ==
    IF Three(b[0][0], b[1][1], b[2][2]) THEN b[0][0]
    ELSE IF Three(b[0][2], b[1][1], b[2][0]) THEN b[0][2]
    ELSE None

\* check_winner with the anti-diagonal test left out.
check_winner_no_anti(b) ==
    IF ScanRows(b, 0) # None THEN ScanRows(b, 0)
    ELSE IF ScanCols(b, 0) # None THEN ScanCols(b, 0)
    ELSE IF Three(b[0][0], b[1][1], b[2][2]) THEN b[0][0]
    ELSE None

\* check_winner: rows, then columns, then the diagonals; the first hit returns.
check_winner(b) ==
    IF ScanRows(b, 0) # None THEN ScanRows(b, 0)
    ELSE IF ScanCols(b, 0) # None THEN ScanCols(b, 0)
    ELSE ScanDiags(b)

\* is_board_full with "return True" inside the loop: only the first row is
\* looked at.
is_board_full_first_row(b) == ~ \E c \in Idx : b[0][c] = Empty

\* is_board_full: for row in self.board: if ' ' in row: return False
is_board_full(b) == ~ \E r \in Idx : \E c \in Idx : b[r][c] = Empty

\* is_game_over with the winner test left out.
is_game_over_full_only(b) == is_board_full(b)

\* is_game_over: check_winner() is not None or is_board_full()
is_game_over(b) == check_winner(b) # None \/ is_board_full(b)

\* get_board: [row[:] for row in self.board]
get_board(b) == [r \in Idx |-> [c \in Idx |-> b[r][c]]]

\* What every call records: the method, its arguments, its result and the
\* state it was called in.
Call(name, a, r) ==
    /\ op' = name
    /\ args' = a
    /\ ret' = r
    /\ old_board' = board
    /\ old_player' = current_player

\* make_move that also refuses once the game is over.
make_move_guarded(row, col) ==
    IF ~ InRange(row, col) \/ is_game_over(board) \/ Occupied(board, row, col)
    THEN /\ Call("make_move", <<row, col>>, False)
         /\ UNCHANGED <<board, current_player, placed>>
    ELSE /\ board' = Place(board, row, col, current_player)
         /\ current_player' = Other(current_player)
         /\ placed' = Append(placed, current_player)
         /\ Call("make_move", <<row, col>>, True)

\* make_move that flips the player before it tests the cell, so that a move
\* onto an occupied cell still passes the turn.
make_move_flip_first(row, col) ==
    IF ~ InRange(row, col)
    THEN /\ Call("make_move", <<row, col>>, False)
         /\ UNCHANGED <<board, current_player, placed>>
    ELSE IF Occupied(board, row, col)
    THEN /\ Call("make_move", <<row, col>>, False)
         /\ current_player' = Other(current_player)
         /\ UNCHANGED <<board, placed>>
    ELSE /\ board' = Place(board, row, col, current_player)
         /\ current_player' = Other(current_player)
         /\ placed' = Append(placed, current_player)
         /\ Call("make_move", <<row, col>>, True)

\* make_move(row, col)
make_move(row, col) ==
    IF ~ InRange(row, col)
    THEN /\ Call("make_move", <<row, col>>, False)
         /\ UNCHANGED <<board, current_player, placed>>
    ELSE IF Occupied(board, row, col)
    THEN /\ Call("make_move", <<row, col>>, False)
         /\ UNCHANGED <<board, current_player, placed>>
    ELSE /\ board' = Place(board, row, col, current_player)
         /\ current_player' = Other(current_player)
         /\ placed' = Append(placed, current_player)
         /\ Call("make_move", <<row, col>>, True)

\* reset that leaves current_player alone.
reset_board_only ==
    /\ board' = EmptyBoard
    /\ current_player' = current_player
    /\ placed' = <<>>
    /\ Call("reset", <<>>, None)

\* reset()
reset ==
    /\ board' = EmptyBoard
    /\ current_player' = "X"
    /\ placed' = <<>>
    /\ Call("reset", <<>>, None)

\* check_winner that also makes the winner the current player.
query_check_winner_sets_player ==
    /\ Call("check_winner", <<>>, check_winner(board))
    /\ current_player' = IF check_winner(board) # None THEN check_winner(board)
                          ELSE current_player
    /\ UNCHANGED <<board, placed>>

\* The four queries: none assigns to self.
query_check_winner ==
    /\ Call("check_winner", <<>>, check_winner(board))
    /\ UNCHANGED <<board, current_player, placed>>

query_is_board_full ==
    /\ Call("is_board_full", <<>>, Bool(is_board_full(board)))
    /\ UNCHANGED <<board, current_player, placed>>

query_is_game_over ==
    /\ Call("is_game_over", <<>>, Bool(is_game_over(board)))
    /\ UNCHANGED <<board, current_player, placed>>

query_get_board ==
    /\ Call("get_board", <<>>, get_board(board))
    /\ UNCHANGED <<board, current_player, placed>>

\* __init__, before any call.
Fresh ==
    /\ board = EmptyBoard
    /\ current_player = "X"
    /\ op = "__init__"
    /\ args = <<>>
    /\ ret = None
    /\ old_board = EmptyBoard
    /\ old_player = "X"
    /\ placed = <<>>
    /\ snapshot = <<>>
    /\ shared = {}
    /\ writes = 0
    /\ calls = 0

(***************************************************************************)
(* Spec: the class under any caller.                                       *)
(***************************************************************************)
Init == Fresh /\ pc = "api"

MakeMove == \E row \in Coords : \E col \in Coords : make_move(row, col) /\ UNCHANGED <<pc, snapvars>>

Reset == reset /\ UNCHANGED <<pc, snapvars>>

CheckWinner == query_check_winner /\ UNCHANGED <<pc, snapvars>>

IsBoardFull == query_is_board_full /\ UNCHANGED <<pc, snapvars>>

IsGameOver == query_is_game_over /\ UNCHANGED <<pc, snapvars>>

GetBoard == query_get_board /\ UNCHANGED <<pc, snapvars>>

Next == MakeMove \/ Reset \/ CheckWinner \/ IsBoardFull \/ IsGameOver \/ GetBoard

Spec == Init /\ [][Next]_vars

(***************************************************************************)
(* SpecMain: the console loop.                                             *)
(***************************************************************************)
MainInit == Fresh /\ pc = "while"

\* while not game.is_game_over():
MainWhile ==
    /\ pc = "while"
    /\ query_is_game_over
    /\ pc' = IF is_game_over(board) THEN "after" ELSE "turn"
    /\ UNCHANGED snapvars

\* print_board(game.get_board())
MainShow ==
    /\ pc = "turn"
    /\ query_get_board
    /\ pc' = "input"
    /\ UNCHANGED snapvars

\* row = int(input(...)); col = int(input(...)); if game.make_move(row, col):
MainMove ==
    /\ pc = "input"
    /\ \E row \in Coords : \E col \in Coords : make_move(row, col)
    /\ pc' = IF ret' = True THEN "check" ELSE "while"
    /\ UNCHANGED snapvars

\* except (ValueError, KeyboardInterrupt): break
MainAbort ==
    /\ pc = "input"
    /\ pc' = "after"
    /\ UNCHANGED <<board, current_player, op, args, ret, old_board, old_player, placed>>
    /\ UNCHANGED snapvars

\* winner = game.check_winner(); if winner: ... break
MainCheck ==
    /\ pc = "check"
    /\ query_check_winner
    /\ pc' = IF check_winner(board) # None THEN "after" ELSE "while"
    /\ UNCHANGED snapvars

\* if game.is_board_full() and not game.check_winner(): print("It's a tie!")
MainAfter ==
    /\ pc = "after"
    /\ query_is_board_full
    /\ pc' = "done"
    /\ UNCHANGED snapvars

MainNext == MainWhile \/ MainShow \/ MainMove \/ MainAbort \/ MainCheck \/ MainAfter

SpecMain == MainInit /\ [][MainNext]_vars

(***************************************************************************)
(* SpecLive: the console loop with a player who never ends the input       *)
(* (no ValueError, no KeyboardInterrupt) and who, as long as the loop      *)
(* keeps asking, eventually enters a move that make_move accepts.  The     *)
(* statements of the loop itself always run to the next one.               *)
(***************************************************************************)
\* The branch of MainMove in which make_move returns True.
MainMoveOK == MainMove /\ ret' = True

LiveNext == MainWhile \/ MainShow \/ MainMove \/ MainCheck \/ MainAfter

SpecLive ==
    /\ MainInit
    /\ [][LiveNext]_vars
    /\ WF_vars(MainWhile)
    /\ WF_vars(MainShow)
    /\ WF_vars(MainCheck)
    /\ WF_vars(MainAfter)
    /\ SF_vars(MainMoveOK)

(***************************************************************************)
(* SpecCW: check_winner on every 3x3 grid over {' ', 'X', 'O'}.            *)
(***************************************************************************)
CWInit ==
    /\ board \in AllBoards
    /\ current_player \in Marks
    /\ pc = "api"
    /\ op = "__init__"
    /\ args = <<>>
    /\ ret = None
    /\ old_board = board
    /\ old_player = current_player
    /\ placed = <<>>
    /\ snapshot = <<>>
    /\ shared = {}
    /\ writes = 0
    /\ calls = 0

CWNext == CheckWinner

SpecCW == CWInit /\ [][CWNext]_vars

(***************************************************************************)
(* SpecSnap: a caller that holds the grid get_board() returned, writes     *)
(* into its cells and goes on calling make_move and reset.  A Python list  *)
(* is an object: a write through one reference is seen through every       *)
(* other reference to the same list.  `shared` records which row lists of  *)
(* the caller's grid are row lists of self.board.                          *)
(***************************************************************************)
\* The number of steps (calls and cell writes) a behaviour of SpecSnap takes.
MaxSnapCalls == 4

\* Every step of SpecSnap counts.
Step == calls < MaxSnapCalls /\ calls' = calls + 1

\* get_board as "return list(self.board)": a new outer list holding the same
\* three row lists.
get_board_same_rows == Idx

\* The rows of get_board()'s result that are row lists of self.board:
\* row[:] builds a new list for every row, so there are none.
get_board_shared_rows == {}

\* What the caller's grid g shows when self.board reads b: a shared row is
\* one list, read through either reference.
Through(g, sh, b) == [r \in Idx |-> IF r \in sh THEN b[r] ELSE g[r]]

SnapInit == Fresh /\ pc = "api"

\* make_move(row, col): self.board[row][col] = ... writes into a row list.
SnapMakeMove ==
    /\ Step
    /\ \E row \in Idx : \E col \in Idx : make_move(row, col)
    /\ snapshot' = IF snapshot = <<>> THEN <<>>
                   ELSE <<Through(snapshot[1], shared, board')>>
    /\ UNCHANGED <<pc, shared, writes>>

\* reset(): self.board is bound to new lists; the caller's grid keeps the
\* old ones.
SnapReset ==
    /\ Step
    /\ reset
    /\ shared' = {}
    /\ UNCHANGED <<pc, snapshot, writes>>

\* board = game.get_board()
SnapGetBoard ==
    /\ Step
    /\ query_get_board
    /\ snapshot' = <<get_board(board)>>
    /\ shared' = get_board_shared_rows
    /\ writes' = 0
    /\ UNCHANGED pc

\* board[r][c] = v, by the caller, on the grid it was handed.
SnapWrite ==
    /\ Step
    /\ snapshot # <<>>
    /\ \E r \in Idx : \E c \in Idx : \E v \in Cells :
          /\ snapshot' = <<[snapshot[1] EXCEPT ![r][c] = v]>>
          /\ board' = IF r \in shared THEN [board EXCEPT ![r][c] = v] ELSE board
          /\ Call("write", <<r, c, v>>, None)
    /\ writes' = writes + 1
    /\ UNCHANGED <<current_player, placed, pc, shared>>

SnapNext == SnapMakeMove \/ SnapReset \/ SnapGetBoard \/ SnapWrite

SpecSnap == SnapInit /\ [][SnapNext]_vars

(***************************************************************************)
(* The properties.  The eight lines and "mark m holds a whole line" are    *)
(* stated here from the rules of the game, independently of check_winner.  *)
(***************************************************************************)
Lines ==
    {{<<r, c>> : c \in Idx} : r \in Idx}
    \cup {{<<r, c>> : r \in Idx} : c \in Idx}
    \cup {{<<i, i>> : i \in Idx}, {<<i, N - 1 - i>> : i \in Idx}}

Complete(b, L, m) == \A p \in L : b[p[1]][p[2]] = m

HasLine(b, m) == \E L \in Lines : Complete(b, L, m)

CompleteLines(b) == {L \in Lines : \E m \in Marks : Complete(b, L, m)}

\* The last call was make_move(row, col) with both arguments in 0..2.
MoveInRange == op = "make_move" /\ args[1] \in Idx /\ args[2] \in Idx

\* The last call was a make_move that the contract rejects: an argument
\* outside 0..2, or a target cell that was not empty.
MoveToReject ==
    /\ op = "make_move"
    /\ IF args[1] \in Idx /\ args[2] \in Idx
       THEN old_board[args[1]][args[2]] # Empty
       ELSE TRUE

\* The last call was a make_move on an empty cell of the board.
MoveToAccept == MoveInRange /\ old_board[args[1]][args[2]] = Empty

\* C1: a make_move whose row or column is outside 0..2 (negative values
\* included) or whose target cell is occupied returns False and leaves all
\* nine cells and current_player as they were.
C1_RejectedMoveIsNoOp ==
    MoveToReject => ret = False /\ board = old_board /\ current_player = old_player

\* C1 witness: make_move with row -1 was rejected although the cell a
\* negative list index would reach (the last row) was empty.
C1_Witness ==
    /\ op = "make_move"
    /\ args[1] = -1
    /\ args[2] \in Idx
    /\ old_board[N - 1][args[2]] = Empty
    /\ Len(placed) >= 2
    /\ ret = False

\* C2: a make_move on an empty in-range cell returns True, writes the mark
\* that was current_player before the call into that cell, flips
\* current_player to the other mark and leaves the other eight cells alone.
C2_SuccessfulMoveEffect ==
    MoveToAccept =>
        /\ ret = True
        /\ board[args[1]][args[2]] = old_player
        /\ current_player \in Marks \ {old_player}
        /\ \A r \in Idx : \A c \in Idx :
              <<r, c>> # args => board[r][c] = old_board[r][c]

\* C2 witness: O has just moved successfully onto a board that already held
\* five marks.
C2_Witness ==
    /\ MoveToAccept
    /\ old_player = "O"
    /\ Len(placed) = 6
    /\ ret = True

\* C3: the marks placed by the successful moves since construction or the
\* last reset are X, O, X, O, ...; current_player differs from its value
\* before the last call only if that call was a successful make_move or a
\* reset (which sets it to X), never after a rejected move or a query.
C3_TurnAlternation ==
    /\ \A i \in 1 .. Len(placed) : placed[i] = IF i % 2 = 1 THEN "X" ELSE "O"
    /\ current_player = (IF Len(placed) % 2 = 0 THEN "X" ELSE "O")
    /\ current_player # old_player =>
          \/ op = "make_move" /\ ret = True
          \/ op = "reset" /\ current_player = "X"

\* C3 witness: a rejected move in the middle of a game, five marks placed,
\* O to move before and after it.
C3_Witness ==
    /\ op = "make_move"
    /\ ret = False
    /\ Len(placed) = 5
    /\ old_player = "O"
    /\ current_player = "O"

\* C4: a cell that holds X or O holds the same mark after every step, except
\* that reset() empties it; no step turns an X into an O or an O into an X.
C4_MarksPermanent ==
    [][\A r \in Idx : \A c \in Idx :
          board[r][c] # Empty =>
              \/ board'[r][c] = board[r][c]
              \/ op' = "reset" /\ board'[r][c] = Empty]_vars

\* C4 witness: O called make_move on a cell holding X; the X is still there.
C4_Witness ==
    /\ MoveInRange
    /\ old_player = "O"
    /\ old_board[args[1]][args[2]] = "X"
    /\ board[args[1]][args[2]] = "X"

\* C5 as claimed: for every grid, check_winner() returns mark m exactly when
\* some line is all m, and None exactly when no line is complete.
C5_CheckWinnerExactAsClaimed ==
    op = "check_winner" =>
        /\ \A m \in Marks : ret = m <=> HasLine(board, m)
        /\ ret = None <=> CompleteLines(board) = {}

\* C5 as amended: check_winner() returns a mark or None; None exactly when no
\* line is complete; a returned mark holds a complete line; and a mark that
\* holds a complete line is returned whenever the other mark holds none.
C5_CheckWinnerExact ==
    op = "check_winner" =>
        /\ ret \in Marks \cup {None}
        /\ ret = None <=> CompleteLines(board) = {}
        /\ \A m \in Marks : ret = m => HasLine(board, m)
        /\ \A m \in Marks :
              HasLine(board, m) /\ ~ HasLine(board, Other(m)) => ret = m

\* C5 witness: check_winner() was called on a grid whose only complete line
\* is the anti-diagonal, the last line of the scan.
C5_Witness ==
    /\ op = "check_winner"
    /\ CompleteLines(board) = {{<<i, N - 1 - i>> : i \in Idx}}
    /\ ret = "O"

\* C6: in the console loop, which asks for a move only while is_game_over()
\* is false, X and O never both hold a complete line.
C6_NoDoubleWinner == ~ (HasLine(board, "X") /\ HasLine(board, "O"))

\* C6 witness: the loop has ended on a win by O with eight marks on the
\* board.
C6_Witness ==
    /\ pc = "done"
    /\ HasLine(board, "O")
    /\ Len(placed) = 8

\* C7 as claimed: in the console loop at most one of the eight lines is
\* complete.
C7_AtMostOneLineAsClaimed == Cardinality(CompleteLines(board)) <= 1

\* C7 as amended: in the console loop at most two lines are complete, all
\* complete lines hold the same mark, and that mark is what check_winner
\* returns, so the scan order cannot matter.
C7_CompleteLinesAgree ==
    /\ Cardinality(CompleteLines(board)) <= 2
    /\ \A L \in CompleteLines(board) : Complete(board, L, check_winner(board))

\* C7 witness: one move has completed two lines at once.
C7_Witness ==
    /\ op = "make_move"
    /\ ret = True
    /\ CompleteLines(old_board) = {}
    /\ Cardinality(CompleteLines(board)) = 2

\* C8 as claimed: a make_move called when the game is over leaves
\* check_winner() returning what it returned before the call.
C8_OutcomeFinalAsClaimed ==
    op = "make_move" /\ is_game_over(old_board) =>
        check_winner(board) = check_winner(old_board)

\* C8 as amended: a make_move called when the game is over leaves the game
\* over; on a drawn board it is rejected and changes nothing; on a won board
\* every mark that held a complete line still holds it, so check_winner()
\* still returns a mark (not necessarily the same one).
C8_OutcomeStaysDecided ==
    op = "make_move" /\ is_game_over(old_board) =>
        /\ is_game_over(board)
        /\ check_winner(old_board) = None =>
              ret = False /\ board = old_board /\ check_winner(board) = None
        /\ \A m \in Marks : HasLine(old_board, m) => HasLine(board, m)
        /\ check_winner(old_board) # None => check_winner(board) # None

\* C8 witness: a move made after X had won changed check_winner() from X
\* to O.
C8_Witness ==
    /\ op = "make_move"
    /\ ret = True
    /\ check_winner(old_board) = "X"
    /\ check_winner(board) = "O"

\* C9: make_move does not look at the outcome: when check_winner() already
\* returns a mark, a make_move on an empty in-range cell returns True, places
\* the caller's mark and flips current_player.
C9_NoTerminalGuard ==
    MoveToAccept /\ check_winner(old_board) # None =>
        /\ ret = True
        /\ board = [old_board EXCEPT ![args[1]][args[2]] = old_player]
        /\ current_player # old_player
        /\ current_player \in Marks

\* C9 witness: a move was accepted on a board that X had already won.
C9_Witness ==
    /\ MoveToAccept
    /\ check_winner(old_board) = "X"
    /\ old_player = "O"
    /\ ret = True

\* C10: after reset() the game is what __init__ builds: nine empty cells and
\* X to move, whatever the state before (in progress, won, drawn, played on
\* after the end, or already reset).
C10_ResetRestoresInitial ==
    op = "reset" =>
        /\ DOMAIN board = 0 .. 2
        /\ \A r \in 0 .. 2 : DOMAIN board[r] = 0 .. 2
        /\ \A r \in 0 .. 2 : \A c \in 0 .. 2 : board[r][c] = " "
        /\ current_player = "X"
        /\ placed = <<>>

\* C10 witness: reset() was called with O to move on a board on which both
\* marks held a line (moves had been made after the game was over).
C10_Witness ==
    /\ op = "reset"
    /\ HasLine(old_board, "X")
    /\ HasLine(old_board, "O")
    /\ old_player = "O"
    /\ board = EmptyBoard

\* C11: get_board() returns a grid equal cell for cell to the board at the
\* time of the call; a write into any cell of that grid changes neither the
\* board nor current_player; and make_move and reset leave a grid already
\* handed out as it was.
C11_SnapshotIsolation ==
    [][/\ op' = "get_board" =>
             /\ ret' = board
             /\ snapshot' = <<board>>
             /\ board' = board
       /\ op' = "write" =>
             /\ board' = board
             /\ current_player' = current_player
       /\ op' \in {"make_move", "reset"} => snapshot' = snapshot]_vars

\* C11 witness: the caller wrote a mark into an empty cell of its snapshot,
\* then a move was made on a different cell of the same row; the board shows
\* the move and not the write, the snapshot the write and not the move.
C11_Witness ==
    /\ op = "make_move"
    /\ ret = True
    /\ writes = 1
    /\ \E r \in Idx : \E c \in Idx :
          /\ r = args[1]
          /\ c # args[2]
          /\ board[r][c] = Empty
          /\ snapshot[1][r][c] = "O"
          /\ snapshot[1][r][args[2]] = Empty

\* The cells of b that are empty, and those that hold mark m.
EmptyCells(b) == {p \in Idx \X Idx : b[p[1]][p[2]] = Empty}

CellsOf(b, m) == {p \in Idx \X Idx : b[p[1]][p[2]] = m}

\* The three states of a game, from the rules: won by some mark; drawn (no
\* line, no empty cell); in progress (no line, some empty cell).
Won(b) == \E m \in Marks : HasLine(b, m)

Drawn(b) == ~ Won(b) /\ EmptyCells(b) = {}

InProgress(b) == ~ Won(b) /\ EmptyCells(b) # {}

\* C12: is_game_over() is True exactly when check_winner() is not None or
\* is_board_full() is True, on the state as it is at the call; so a state
\* is over exactly when it is Won or Drawn and not over exactly when it is
\* InProgress.
C12_GameOverIsDisjunction ==
    /\ is_game_over(board) <=> (Won(board) \/ Drawn(board))
    /\ is_game_over(board) <=> ~ InProgress(board)
    /\ op = "is_game_over" =>
          /\ board = old_board
          /\ ret = True <=> (check_winner(board) # None \/ is_board_full(board))
          /\ ret = False <=> InProgress(board)
          /\ ret \in {True, False}

\* C12 witness: is_game_over() returned True on a board that is not full,
\* won by O.
C12_Witness ==
    /\ op = "is_game_over"
    /\ ret = True
    /\ HasLine(board, "O")
    /\ ~ HasLine(board, "X")
    /\ EmptyCells(board) # {}

\* C13: is_board_full() is True exactly when no cell is empty; that is the
\* case exactly when nine moves have succeeded since construction or the
\* last reset, and never after fewer.
C13_BoardFullExact ==
    /\ is_board_full(board) <=> EmptyCells(board) = {}
    /\ is_board_full(board) <=> Len(placed) = 9
    /\ Len(placed) <= 9
    /\ op = "__init__" => ~ is_board_full(board)
    /\ op = "is_board_full" =>
          ret = (IF EmptyCells(board) = {} THEN True ELSE False)

\* C13 witness: is_board_full() returned False on a board whose first row is
\* full and whose last cell alone is empty.
C13_Witness ==
    /\ op = "is_board_full"
    /\ ret = False
    /\ EmptyCells(board) = {<<2, 2>>}
    /\ Len(placed) = 8

\* The eight lines in the order check_winner is to scan them: rows 0 to 2,
\* columns 0 to 2, main diagonal, anti-diagonal.
ScanOrder ==
    <<{<<0, 0>>, <<0, 1>>, <<0, 2>>}, {<<1, 0>>, <<1, 1>>, <<1, 2>>},
      {<<2, 0>>, <<2, 1>>, <<2, 2>>}, {<<0, 0>>, <<1, 0>>, <<2, 0>>},
      {<<0, 1>>, <<1, 1>>, <<2, 1>>}, {<<0, 2>>, <<1, 2>>, <<2, 2>>},
      {<<0, 0>>, <<1, 1>>, <<2, 2>>}, {<<0, 2>>, <<1, 1>>, <<2, 0>>}>>

\* The mark of the first complete line of b in that order, or None.
FirstMatch(b) ==
    LET hits == {i \in DOMAIN ScanOrder :
                    \E m \in Marks : Complete(b, ScanOrder[i], m)}
    IN  IF hits = {} THEN None
        ELSE LET first == CHOOSE i \in hits : \A j \in hits : i <= j
             IN  CHOOSE m \in Marks : Complete(b, ScanOrder[first], m)

\* C14: on every 3x3 grid, grids on which both marks hold lines included,
\* check_winner() returns the mark of the first complete line in the order
\* row 0, 1, 2, column 0, 1, 2, main diagonal, anti-diagonal (None if there
\* is none); the result depends on the grid alone.
C14_FirstMatch ==
    op = "check_winner" =>
        /\ ret = FirstMatch(board)
        /\ board = old_board

\* C14 witness: check_winner() returned O on a grid where O holds row 0 and
\* X holds row 2.
C14_Witness ==
    /\ op = "check_winner"
    /\ Complete(board, ScanOrder[1], "O")
    /\ Complete(board, ScanOrder[3], "X")
    /\ ret = "O"

Queries == {"check_winner", "is_board_full", "is_game_over", "get_board"}

\* What query q is to return on board b with nothing else happening.
Answer(q, b) ==
    CASE q = "check_winner" -> FirstMatch(b)
      [] q = "is_board_full" -> IF EmptyCells(b) = {} THEN True ELSE False
      [] q = "is_game_over" -> IF InProgress(b) THEN False ELSE True
      [] q = "get_board" -> b

\* C15: a call of check_winner, is_board_full, is_game_over or get_board
\* leaves the nine cells and current_player as they were; its result is the
\* one the state it leaves behind determines, so the same query called again
\* with no make_move or reset in between returns the same.
C15_QueriesPure ==
    [][/\ op' \in Queries =>
             /\ board' = board
             /\ current_player' = current_player
             /\ ret' = Answer(op', board')
       /\ op \in Queries /\ op' = op => ret' = ret]_vars

\* C15 witness: check_winner() returned X with O to move, and the board and
\* the player are what they were before the call.
C15_Witness ==
    /\ op = "check_winner"
    /\ ret = "X"
    /\ board = old_board
    /\ old_player = "O"
    /\ current_player = "O"

\* C16: the board always has exactly rows 0..2 of exactly cells 0..2, every
\* cell is ' ', 'X' or 'O', and current_player is 'X' or 'O'; a new game has
\* nine empty cells and X to move.
C16_ShapeAndType ==
    /\ DOMAIN board = 0 .. 2
    /\ \A r \in DOMAIN board : DOMAIN board[r] = 0 .. 2
    /\ \A r \in DOMAIN board : \A c \in DOMAIN board[r] :
          board[r][c] \in {" ", "X", "O"}
    /\ current_player \in {"X", "O"}
    /\ op = "__init__" => EmptyCells(board) = Idx \X Idx /\ current_player = "X"

\* C16 witness: make_move was called with a row above 2 on a full board.
C16_Witness ==
    /\ op = "make_move"
    /\ args[1] > 2
    /\ EmptyCells(board) = {}

\* C17: the number of X cells minus the number of O cells is 0 or 1;
\* current_player is X exactly when the counts are equal and O exactly when
\* X has one more, moves made after the end of the game included.
C17_MarkCount ==
    LET x == Cardinality(CellsOf(board, "X"))
        o == Cardinality(CellsOf(board, "O"))
    IN  /\ x - o \in {0, 1}
        /\ current_player = "X" <=> x = o
        /\ current_player = "O" <=> x = o + 1

\* C17 witness: a board played on after the end, on which both marks hold a
\* line, with O to move.
C17_Witness ==
    /\ op = "make_move"
    /\ ret = True
    /\ HasLine(board, "X")
    /\ HasLine(board, "O")
    /\ current_player = "O"

\* C18: in the console loop, when a successful make_move takes the game from
\* no winner to check_winner() = m, m is the mark that move placed: the
\* player who moved, not the player now to move.
C18_WinnerJustMoved ==
    /\ op = "make_move"
    /\ ret = True
    /\ check_winner(old_board) = None
    /\ check_winner(board) # None
    => /\ check_winner(board) = old_player
       /\ check_winner(board) = board[args[1]][args[2]]
       /\ check_winner(board) # current_player

\* C18 witness: O has just won in the console loop.
C18_Witness ==
    /\ pc = "check"
    /\ op = "make_move"
    /\ ret = True
    /\ check_winner(old_board) = None
    /\ check_winner(board) = "O"

\* C19: once is_game_over() is True it stays True over every make_move
\* (accepted or rejected) and every query; a step that makes it False is a
\* reset; and on a drawn board every make_move returns False and changes
\* nothing.
C19_GameOverMonotone ==
    [][/\ is_game_over(board) /\ ~ is_game_over(board') => op' = "reset"
       /\ is_game_over(board) /\ op' = "reset" => ~ is_game_over(board')
       /\ Drawn(board) /\ op' = "make_move" =>
             /\ ret' = False
             /\ board' = board
             /\ current_player' = current_player]_vars

\* C19 witness: on a drawn board a make_move on an in-range cell was
\* rejected and the game is still over.
C19_Witness ==
    /\ MoveInRange
    /\ ret = False
    /\ Drawn(old_board)
    /\ is_game_over(board)

\* The counts of C20: since construction or the last reset at most nine
\* moves have succeeded, the non-empty cells are as many as the successful
\* moves, and a game that is over has seen at least five of them.
C20_Counts ==
    /\ Len(placed) <= 9
    /\ Cardinality((Idx \X Idx) \ EmptyCells(board)) = Len(placed)
    /\ is_game_over(board) => Len(placed) >= 5

====
